---- MODULE Spec2Model ----
(***************************************************************************)
(* Model of rtx's handler of asdf's .tool-versions file                   *)
(* (src/config/config_file/tool_versions.rs): the document (path, pre,    *)
(* plugins), parse_str / parse_plugins, dump and the mutators.            *)
(*                                                                         *)
(* A Rust String is a sequence of one-character strings.  The IndexMap    *)
(* `plugins` is the sequence of its slots, in iteration order; a slot is  *)
(* [key |-> name, value |-> [versions |-> ..., post |-> ...]].            *)
(***************************************************************************)
EXTENDS Integers, Sequences, FiniteSets, TLC

\* ------------------------------------------------------------------ bounds
\* lines of a text typed in the specification of the line shapes
MaxShapeLines == 2
\* lines of a text typed in the specification of the file structure
MaxLines == 4
\* lines of a text a mutated document is parsed from
MaxDocLines == 2
\* mutator calls on one document
MaxOps == 2

\* ------------------------------------------------------- strings (std::str)
\* char::is_whitespace, on the characters the texts are made of
IsWhitespace(c) == c \in {" ", "\t", "\r", "\n"}

\* the empty String
Empty == <<>>

\* s[from..], 1-based
Tail_(s, from) == SubSeq(s, from, Len(s))

\* index of the first occurrence of c in s, 0 if there is none (str::find)
RECURSIVE FindFrom(_, _, _)
FindFrom(s, c, i) ==
  IF i > Len(s) THEN 0
  ELSE IF s[i] = c THEN i
  ELSE FindFrom(s, c, i + 1)

Find(s, c) == FindFrom(s, c, 1)

\* str::trim_start
RECURSIVE trim_start(_)
trim_start(s) ==
  IF s # Empty /\ IsWhitespace(s[1]) THEN trim_start(Tail(s)) ELSE s

\* str::trim_end
RECURSIVE trim_end(_)
trim_end(s) ==
  IF s # Empty /\ IsWhitespace(s[Len(s)])
  THEN trim_end(SubSeq(s, 1, Len(s) - 1))
  ELSE s

\* str::starts_with(char)
starts_with(s, c) == s # Empty /\ s[1] = c

\* str::strip_suffix(char), the string itself when it does not end with c
StripSuffix(s, c) ==
  IF s # Empty /\ s[Len(s)] = c THEN SubSeq(s, 1, Len(s) - 1) ELSE s

\* str::lines: the text is cut after each "\n"; a piece loses its final
\* "\n" and then a final "\r"; a last piece without "\n" is a line as it is
RECURSIVE lines(_)
lines(s) ==
  IF s = Empty THEN <<>>
  ELSE LET n == Find(s, "\n")
       IN IF n = 0 THEN <<s>>
          ELSE <<StripSuffix(SubSeq(s, 1, n - 1), "\r")>> \o lines(Tail_(s, n + 1))

\* str::split_once('#'), with unwrap_or((line, "")) of line 78
split_once_or(line) ==
  LET n == Find(line, "#")
  IN IF n = 0 THEN <<line, Empty>>
     ELSE <<SubSeq(line, 1, n - 1), Tail_(line, n + 1)>>

\* length of the leading run of non-whitespace characters of s
RECURSIVE TokenLen(_)
TokenLen(s) ==
  IF s = Empty \/ IsWhitespace(s[1]) THEN 0 ELSE 1 + TokenLen(Tail(s))

\* str::split_whitespace, collected: the maximal runs of non-whitespace
RECURSIVE split_whitespace(_)
split_whitespace(s) ==
  LET t == trim_start(s)
  IN IF t = Empty THEN <<>>
     ELSE LET n == TokenLen(t)
          IN <<SubSeq(t, 1, n)>> \o split_whitespace(Tail_(t, n + 1))

\* strip_suffix(':') in the place of trim_end_matches(':'): one ':' less
trim_end_matches_colon_Once(s) ==
  IF s # Empty /\ s[Len(s)] = ":" THEN SubSeq(s, 1, Len(s) - 1) ELSE s

\* str::trim_end_matches(':')
RECURSIVE trim_end_matches_colon(_)
trim_end_matches_colon(s) ==
  IF s # Empty /\ s[Len(s)] = ":"
  THEN trim_end_matches_colon(SubSeq(s, 1, Len(s) - 1))
  ELSE s

\* [String]::join(sep)
RECURSIVE join(_, _)
join(strs, sep) ==
  IF strs = <<>> THEN Empty
  ELSE IF Len(strs) = 1 THEN strs[1]
  ELSE strs[1] \o sep \o join(Tail(strs), sep)

\* ------------------------------------------------------ IndexMap (indexmap)
\* slot of key k in map m, 0 when k is not a key
RECURSIVE SlotFrom(_, _, _)
SlotFrom(m, k, i) ==
  IF i > Len(m) THEN 0
  ELSE IF m[i].key = k THEN i
  ELSE SlotFrom(m, k, i + 1)

get_index_of(m, k) == SlotFrom(m, k, 1)

contains_key(m, k) == get_index_of(m, k) # 0

\* IndexMap::insert: the value of an existing key is replaced in its slot,
\* a new key is pushed as the last slot
insert(m, k, v) ==
  LET i == get_index_of(m, k)
  IN IF i = 0 THEN Append(m, [key |-> k, value |-> v])
     ELSE [m EXCEPT ![i].value = v]

\* IndexMap::remove is swap_remove (indexmap 1.x and 2.x: "equivalent to
\* .swap_remove(key)"): the last slot moves into the slot of the removed key
swap_remove(m, k) ==
  LET i == get_index_of(m, k)
      n == Len(m)
  IN IF i = 0 THEN m
     ELSE IF i = n THEN SubSeq(m, 1, n - 1)
     ELSE [j \in 1..(n - 1) |-> IF j = i THEN m[n] ELSE m[j]]

\* ToolVersionPlugin::default(): #[derive(Default)]
DefaultPlugin == [versions |-> <<>>, post |-> Empty]

\* IndexMap::entry(k).or_default(): the map with k present
entry_or_default(m, k) ==
  IF contains_key(m, k) THEN m ELSE Append(m, [key |-> k, value |-> DefaultPlugin])

\* ----------------------------------------------------- parsing and dumping
\* the preamble loop without its break: all comment lines of the text
RECURSIVE ParsePre_NoBreak(_)
ParsePre_NoBreak(ls) ==
  IF ls = <<>> THEN Empty
  ELSE IF ~starts_with(trim_start(ls[1]), "#") THEN ParsePre_NoBreak(Tail(ls))
  ELSE ls[1] \o <<"\n">> \o ParsePre_NoBreak(Tail(ls))

\* the preamble loop of parse_str: the leading comment lines, each with "\n"
RECURSIVE ParsePre(_)
ParsePre(ls) ==
  IF ls = <<>> THEN Empty
  ELSE IF ~starts_with(trim_start(ls[1]), "#") THEN Empty
  ELSE ls[1] \o <<"\n">> \o ParsePre(Tail(ls))

\* PostOf without the space in front of the '#'
PostOf_NoSpace(post) ==
  IF post = Empty THEN <<"\n">> ELSE <<"#">> \o post \o <<"\n">>

\* post of an entry line, from the segment after the first '#'
PostOf(post) ==
  IF post = Empty THEN <<"\n">> ELSE <<" ", "#">> \o post \o <<"\n">>

\* one iteration of the loop of parse_plugins
ParseLine(plugins, line) ==
  IF starts_with(trim_start(line), "#")
  THEN IF plugins = <<>> THEN plugins
       ELSE [plugins EXCEPT ![Len(plugins)].value.post = @ \o line \o <<"\n">>]
  ELSE LET sp == split_once_or(line)
           parts == split_whitespace(sp[1])
       IN IF parts = <<>> THEN plugins
          ELSE insert(plugins,
                      trim_end_matches_colon(parts[1]),
                      [versions |-> Tail(parts), post |-> PostOf(sp[2])])

RECURSIVE ParseLines(_, _)
ParseLines(plugins, ls) ==
  IF ls = <<>> THEN plugins
  ELSE ParseLines(ParseLine(plugins, ls[1]), Tail(ls))

\* a Result: Ok(val) or an Err
Ok(val) == [ok |-> TRUE, val |-> val]
Err == [ok |-> FALSE, val |-> <<>>]

\* parse_plugins that rejects a tool without versions
parse_plugins_Strict(input) ==
  IF \E i \in 1..Len(lines(input)) :
       /\ ~starts_with(trim_start(lines(input)[i]), "#")
       /\ Len(split_whitespace(split_once_or(lines(input)[i])[1])) = 1
  THEN Err
  ELSE Ok(ParseLines(<<>>, lines(input)))

\* parse_plugins ends with Ok(plugins) and has no other return
parse_plugins(input) == Ok(ParseLines(<<>>, lines(input)))

\* the text of the entries, in iteration order
RECURSIVE DumpPlugins(_)
DumpPlugins(m) ==
  IF m = <<>> THEN Empty
  ELSE m[1].key \o <<" ">> \o join(m[1].value.versions, <<" ">>) \o m[1].value.post
       \o DumpPlugins(Tail(m))

dump(p, m) == trim_end(p \o DumpPlugins(m)) \o <<"\n">>

\* parse_str: Ok of (pre, plugins) of the document; the `?` on parse_plugins
\* returns its Err
parse_str(s) ==
  LET p == ParsePre(lines(s))
      r == parse_plugins(s)
  IN IF r.ok THEN Ok([pre |-> p, plugins |-> r.val]) ELSE Err

\* ConfigFile::plugins(): the names with their versions, in iteration order
plugins_of(m) == [i \in 1..Len(m) |-> <<m[i].key, m[i].value.versions>>]

\* ---------------------------------------------------------------- mutators
get_or_create_plugin(m, plugin) == entry_or_default(m, plugin)

\* add_version that puts the version in front
add_version_Front(m, plugin, version) ==
  LET m1 == get_or_create_plugin(m, plugin)
      i == get_index_of(m1, plugin)
  IN [m1 EXCEPT ![i].value.versions = <<version>> \o @]

add_version(m, plugin, version) ==
  LET m1 == get_or_create_plugin(m, plugin)
      i == get_index_of(m1, plugin)
  IN [m1 EXCEPT ![i].value.versions = Append(@, version)]

\* the loop of replace_versions
RECURSIVE AddVersions(_, _, _)
AddVersions(m, plugin, versions) ==
  IF versions = <<>> THEN m
  ELSE AddVersions(add_version(m, plugin, versions[1]), plugin, Tail(versions))

\* replace_versions without versions.clear()
replace_versions_NoClear(m, plugin, versions) ==
  AddVersions(get_or_create_plugin(m, plugin), plugin, versions)

replace_versions(m, plugin, versions) ==
  LET m1 == get_or_create_plugin(m, plugin)
      i == get_index_of(m1, plugin)
  IN AddVersions([m1 EXCEPT ![i].value.versions = <<>>], plugin, versions)

remove_plugin(m, plugin) == swap_remove(m, plugin)

\* env that makes a variable of every plugin
env_OfPlugins(p, m) == {<<m[i].key, join(m[i].value.versions, <<" ">>)>> : i \in 1..Len(m)}

\* ConfigFile::env() of the document (pre p, plugins m): HashMap::new(), a
\* map being the set of its (name, value) pairs
env(p, m) == {}

\* ------------------------------------------------------------------ inputs
A == <<"a">>
B == <<"b">>
C == <<"c">>
V1 == <<"1">>
V2 == <<"2">>
SP == <<" ">>

\* the lines typed where the shape of one line matters
ShapeLines ==
  { A \o SP \o V1,                                 \* a 1
    A \o SP \o V1 \o SP \o V2,                     \* a 1 2
    A,                                             \* a
    A \o <<":">> \o SP \o V1,                      \* a: 1
    A \o <<":", ":">>,                             \* a::
    <<":">> \o SP \o V1,                           \* : 1
    <<"#", "c">>,                                  \* #c
    <<"#", "c", " ">>,                             \* #c, a space after it
    <<" ", "#", "c">>,                             \* #c, indented
    Empty,                                         \* a blank line
    SP,                                            \* a line of one space
    A \o SP \o V1 \o <<" ", "#", "c">>,            \* a 1 #c
    B \o SP \o V2 \o <<" ", "#", "c", "#", "d">>,  \* b 2 #c#d
    A \o SP \o V1 \o <<"#", "c">>,                 \* a 1#c
    A \o SP \o V1 \o <<" ", "#">>,                 \* a 1 #
    SP \o B \o SP \o SP \o V1,                     \* b 1, indented, two spaces
    A \o SP \o V1 \o <<"\r">>,                     \* a 1, ended by CR LF
    B \o <<" ", "#", "c">> }                       \* b #c

\* the lines typed where the order of the lines matters
StructLines ==
  { A \o SP \o V1,                                 \* a 1
    B \o SP \o V1,                                 \* b 1
    C \o SP \o V1,                                 \* c 1
    A \o <<":">> \o SP \o V2 \o <<" ", "#", "d">>, \* a: 2 #d
    B \o SP \o V2,                                 \* b 2
    <<"#", "c">>,                                  \* #c
    Empty }                                        \* a blank line

\* the lines of the texts whose documents are mutated
DocLines ==
  { A \o SP \o V1,                                 \* a 1
    B \o SP \o V1 \o <<" ", "#", "d">>,            \* b 1 #d
    C,                                             \* c
    <<"#", "c">>,                                  \* #c
    <<"#", "c", "\r">>,                            \* #c, ended by CR LF
    <<"#", "c", " ">> }                            \* #c, a space after it

PluginNames == {A, B, C}
Versions == {V1, V2}
VersionLists == {<<>>, <<V2>>, <<V2, V1>>}

\* the texts of the documents that are saved
SaveTexts ==
  { A \o SP \o V1 \o <<"\n">>,                                  \* a 1
    <<"#", "c", "\n">> \o B \o SP \o V1 \o SP \o V2 \o <<"\n">> }  \* #c, b 1 2

\* the documents that are saved: parsed ones and the one init and
\* add_version make
SaveDocs ==
  {parse_str(t).val : t \in SaveTexts}
    \cup {[pre |-> Empty, plugins |-> add_version(<<>>, C, V2)]}

\* the documents bound to the one path, by the names of their owners
Savers == {"s1", "s2"}

\* ------------------------------------------------------------------- state
VARIABLES
  text,     \* the text at hand: the argument of parse_str, the file's content
  pc,       \* "input": no document yet; "doc": a document; "failed": from_file failed
  path,     \* ToolVersions.path
  pre,      \* ToolVersions.pre
  plugins,  \* ToolVersions.plugins
  result,   \* "Ok" or "Err" of the constructor called, "none" before it
  out,      \* the String the last call returned when it was dump, else empty
  call,     \* the last call and its arguments
  before,   \* pre and plugins when the last call started
  nops,     \* the number of mutator calls so far
  read,     \* read_to_string of the last from_file: "ok", "failed"; "none" before
  envret,   \* the map the last call returned when it was env, else NoEnv
  disk,     \* the content of the file at the path the saved documents are bound to
  saves,    \* per saving document: its fields and how far its save() has come
  order     \* the documents whose save() has returned Ok, in the order of the returns

vars == <<text, pc, path, pre, plugins, result, out, call, before, nops, read,
          envret, disk, saves, order>>

NoCall == [op |-> "none", plugin |-> Empty, versions |-> <<>>]

Called(op, plugin, versions) == [op |-> op, plugin |-> plugin, versions |-> versions]

Doc == [pre |-> pre, plugins |-> plugins]

\* no call of env has returned
NoEnv == [some |-> FALSE, map |-> {}]

\* no file at the path
NoFile == [exists |-> FALSE, content |-> Empty]

\* a file with content c at the path
File(c) == [exists |-> TRUE, content |-> c]

\* a zero byte, which a file has where nothing was written below its end
NUL == "NUL"

RECURSIVE Zeros(_)
Zeros(n) == IF n <= 0 THEN Empty ELSE <<NUL>> \o Zeros(n - 1)

\* File::create that opens the file as it is
create_NoTruncate(f) == File(f.content)

\* File::create, the first step of fs::write: the file exists and is empty
create(f) == File(Empty)

\* write of the bytes b at the offset off of the file's content c: b
\* replaces what is there and extends c, after zero bytes when off is
\* beyond the end of c
write_at(c, off, b) ==
  LET head == IF off <= Len(c) THEN SubSeq(c, 1, off)
                               ELSE c \o Zeros(off - Len(c))
  IN head \o b \o Tail_(c, off + Len(b) + 1)

\* a document bound to the path, save() not called
Idle(d) ==
  [doc |-> d, pc |-> "idle", buf |-> Empty, off |-> 0, opened |-> FALSE,
   was |-> [disk |-> NoFile, doc |-> d], overlap |-> FALSE]

\* no document has been constructed: the fields hold Default::default()
InitMain ==
  /\ text = Empty
  /\ pc = "input"
  /\ path = ""
  /\ pre = Empty
  /\ plugins = <<>>
  /\ result = "none"
  /\ out = Empty
  /\ call = NoCall
  /\ before = [pre |-> Empty, plugins |-> <<>>]
  /\ nops = 0
  /\ read = "none"
  /\ envret = NoEnv

\* ... and no document is being saved
Init ==
  /\ InitMain
  /\ disk = NoFile
  /\ saves = <<>>
  /\ order = <<>>

\* ----------------------------------------------------------------- actions
\* the text is empty or ends with a newline: a line can start
AtLineStart(s) == IF s = Empty THEN TRUE ELSE s[Len(s)] = "\n"

\* one more line, with its newline, of the text that will be parsed
TypeLine(S, max) ==
  /\ pc = "input"
  /\ Len(lines(text)) < max
  /\ AtLineStart(text)
  /\ \E l \in S : text' = text \o l \o <<"\n">>
  /\ UNCHANGED <<pc, path, pre, plugins, result, out, call, before, nops, read>>
  /\ UNCHANGED <<envret, disk, saves, order>>

\* a last line without a newline (not one that ends with a bare CR: whether
\* str::lines keeps that CR depends on the release of the standard library)
TypeLast(S, max) ==
  /\ pc = "input"
  /\ Len(lines(text)) < max
  /\ AtLineStart(text)
  /\ \E l \in S : /\ l # Empty
                  /\ l[Len(l)] # "\r"
                  /\ text' = text \o l
  /\ UNCHANGED <<pc, path, pre, plugins, result, out, call, before, nops, read>>
  /\ UNCHANGED <<envret, disk, saves, order>>

\* ToolVersions::init(filename)
InitDoc ==
  /\ pc = "input"
  /\ text = Empty
  /\ pc' = "doc"
  /\ path' = "p"
  /\ pre' = Empty
  /\ plugins' = <<>>
  /\ result' = "Ok"
  /\ out' = Empty
  /\ envret' = NoEnv
  /\ UNCHANGED <<disk, saves, order>>
  /\ call' = Called("init", Empty, <<>>)
  /\ before' = Doc
  /\ UNCHANGED <<text, nops, read>>

\* ToolVersions::parse_str(text)
ParseStr ==
  /\ pc = "input"
  /\ LET r == parse_str(text)
     IN IF r.ok
        THEN /\ pre' = r.val.pre
             /\ plugins' = r.val.plugins
             /\ pc' = "doc"
             /\ result' = "Ok"
             /\ path' = ""
        ELSE /\ pc' = "failed"
             /\ result' = "Err"
             /\ UNCHANGED <<path, pre, plugins>>
  /\ out' = Empty
  /\ envret' = NoEnv
  /\ UNCHANGED <<disk, saves, order>>
  /\ call' = Called("parse_str", Empty, <<>>)
  /\ before' = Doc
  /\ UNCHANGED <<text, nops, read>>

\* ToolVersions::from_file(path): read_to_string(path)? returns its error, or
\* the file's content goes to parse_str, whose Err the second `?` returns
FromFile ==
  /\ pc = "input"
  /\ \E readable \in BOOLEAN :
       /\ read' = IF readable THEN "ok" ELSE "failed"
       /\ IF ~readable
          THEN /\ pc' = "failed"
               /\ result' = "Err"
               /\ UNCHANGED <<path, pre, plugins>>
          ELSE LET r == parse_str(text)
               IN IF r.ok
                  THEN /\ pre' = r.val.pre
                       /\ plugins' = r.val.plugins
                       /\ pc' = "doc"
                       /\ path' = "p"
                       /\ result' = "Ok"
                  ELSE /\ pc' = "failed"
                       /\ result' = "Err"
                       /\ UNCHANGED <<path, pre, plugins>>
  /\ out' = Empty
  /\ envret' = NoEnv
  /\ UNCHANGED <<disk, saves, order>>
  /\ call' = Called("from_file", Empty, <<>>)
  /\ before' = Doc
  /\ UNCHANGED <<text, nops>>

AddVersion ==
  /\ pc = "doc"
  /\ nops < MaxOps
  /\ \E plugin \in PluginNames, version \in Versions :
       /\ plugins' = add_version(plugins, plugin, version)
       /\ call' = Called("add_version", plugin, <<version>>)
  /\ before' = Doc
  /\ out' = Empty
  /\ envret' = NoEnv
  /\ UNCHANGED <<disk, saves, order>>
  /\ nops' = nops + 1
  /\ UNCHANGED <<text, pc, path, pre, result, read>>

ReplaceVersions ==
  /\ pc = "doc"
  /\ nops < MaxOps
  /\ \E plugin \in PluginNames, versions \in VersionLists :
       /\ plugins' = replace_versions(plugins, plugin, versions)
       /\ call' = Called("replace_versions", plugin, versions)
  /\ before' = Doc
  /\ out' = Empty
  /\ envret' = NoEnv
  /\ UNCHANGED <<disk, saves, order>>
  /\ nops' = nops + 1
  /\ UNCHANGED <<text, pc, path, pre, result, read>>

RemovePlugin ==
  /\ pc = "doc"
  /\ nops < MaxOps
  /\ \E plugin \in PluginNames :
       /\ plugins' = remove_plugin(plugins, plugin)
       /\ call' = Called("remove_plugin", plugin, <<>>)
  /\ before' = Doc
  /\ out' = Empty
  /\ envret' = NoEnv
  /\ UNCHANGED <<disk, saves, order>>
  /\ nops' = nops + 1
  /\ UNCHANGED <<text, pc, path, pre, result, read>>

Env ==
  /\ pc = "doc"
  /\ call.op # "env"
  /\ envret' = [some |-> TRUE, map |-> env(pre, plugins)]
  /\ out' = <<>>
  /\ call' = Called("env", Empty, <<>>)
  /\ before' = Doc
  /\ UNCHANGED <<text, pc, path, pre, plugins, result, nops, read>>
  /\ UNCHANGED <<disk, saves, order>>

Dump ==
  /\ pc = "doc"
  /\ call.op # "dump"
  /\ out' = dump(pre, plugins)
  /\ envret' = NoEnv
  /\ UNCHANGED <<disk, saves, order>>
  /\ call' = Called("dump", Empty, <<>>)
  /\ before' = Doc
  /\ UNCHANGED <<text, pc, path, pre, plugins, result, nops, read>>

\* save() of the document of w starts: s = self.dump(), then fs::write
\* opens the file with File::create, which fails or leaves the file empty
SaveOpen(w) ==
  /\ w \in DOMAIN saves
  /\ saves[w].pc = "idle"
  /\ LET me == saves[w]
         s == dump(me.doc.pre, me.doc.plugins)
         others == \E v \in DOMAIN saves : v # w /\ saves[v].pc = "open"
         started == [me EXCEPT !.buf = s, !.was = [disk |-> disk, doc |-> me.doc]]
     IN \E ok \in BOOLEAN :
          IF ok
          THEN /\ disk' = create(disk)
               /\ saves' = [v \in DOMAIN saves |->
                    IF v = w
                    THEN [started EXCEPT !.pc = "open", !.opened = TRUE,
                                         !.overlap = others]
                    ELSE IF saves[v].pc = "open"
                         THEN [saves[v] EXCEPT !.overlap = TRUE]
                         ELSE saves[v]]
          ELSE /\ disk' = disk
               /\ saves' = [saves EXCEPT ![w] = [started EXCEPT !.pc = "failed"]]
  /\ UNCHANGED order
  /\ UNCHANGED <<text, pc, path, pre, plugins, result, out, call, before, nops,
                 read, envret>>

\* write_all of fs::write goes on: a write() of the next n bytes of the
\* buffer at the offset of this file handle, or an error; when the buffer is
\* written, fs::write and save() return Ok
SaveWrite(w) ==
  /\ w \in DOMAIN saves
  /\ saves[w].pc = "open"
  /\ LET me == saves[w]
     IN \E n \in 0..(Len(me.buf) - me.off) :
          IF n = 0
          THEN /\ saves' = [saves EXCEPT ![w].pc = "failed"]
               /\ UNCHANGED <<disk, order>>
          ELSE /\ disk' = File(write_at(disk.content, me.off,
                                        SubSeq(me.buf, me.off + 1, me.off + n)))
               /\ IF me.off + n = Len(me.buf)
                  THEN /\ saves' = [saves EXCEPT ![w].off = @ + n, ![w].pc = "done"]
                       /\ order' = Append(order, w)
                  ELSE /\ saves' = [saves EXCEPT ![w].off = @ + n]
                       /\ order' = order
  /\ UNCHANGED <<text, pc, path, pre, plugins, result, out, call, before, nops,
                 read, envret>>

\* ---------------------------------------------------------- specifications
\* a document is constructed, mutated and dumped
Next ==
  \/ TypeLine(DocLines, MaxDocLines)
  \/ InitDoc
  \/ ParseStr
  \/ AddVersion
  \/ ReplaceVersions
  \/ RemovePlugin
  \/ Dump
  \/ Env

Spec == Init /\ [][Next]_vars

\* texts of few lines of many shapes are parsed and dumped
NextShapes ==
  \/ TypeLine(ShapeLines, MaxShapeLines)
  \/ TypeLast(ShapeLines, MaxShapeLines)
  \/ ParseStr
  \/ FromFile
  \/ Dump

SpecShapes == Init /\ [][NextShapes]_vars

\* texts of many lines of few shapes are parsed and dumped
NextLines ==
  \/ TypeLine(StructLines, MaxLines)
  \/ ParseStr
  \/ FromFile
  \/ Dump

SpecLines == Init /\ [][NextLines]_vars

\* documents bound to one path are saved, with or without a file there
InitSave ==
  /\ InitMain
  /\ disk \in {NoFile} \cup {File(t) : t \in SaveTexts}
  /\ saves \in {[w \in Savers |-> Idle(d[w])] : d \in [Savers -> SaveDocs]}
  /\ order = <<>>

NextSave ==
  \E w \in Savers : SaveOpen(w) \/ SaveWrite(w)

SpecSave == InitSave /\ [][NextSave]_vars

\* ------------------------------------------------- vocabulary of the claims
\* s is a prefix of t
IsPrefix(s, t) == Len(s) <= Len(t) /\ SubSeq(t, 1, Len(s)) = s

\* a comment-only line: its first non-whitespace character is '#'
IsCommentLine(line) == starts_with(trim_start(line), "#")

\* the part of a line before its first '#', the whole line when it has none
DataOf(line) ==
  IF Find(line, "#") = 0 THEN line ELSE SubSeq(line, 1, Find(line, "#") - 1)

\* the line has a '#'
HasHash(line) == Find(line, "#") # 0

\* the part of a line after its first '#'
AfterHash(line) == Tail_(line, Find(line, "#") + 1)

\* the whitespace-separated tokens of the data part of a line
TokensOf(line) == split_whitespace(DataOf(line))

\* an entry line: not comment-only, and with a first token
IsEntryLine(line) == ~IsCommentLine(line) /\ TokensOf(line) # <<>>

\* the first token of an entry line, as written
RawNameOf(line) == TokensOf(line)[1]

\* s without the ':' characters at its end
RECURSIVE DropColons(_)
DropColons(s) ==
  IF s = Empty THEN s
  ELSE IF s[Len(s)] # ":" THEN s
  ELSE DropColons(SubSeq(s, 1, Len(s) - 1))

\* the tool name of an entry line
NameOf(line) == DropColons(RawNameOf(line))

\* the indices of the entry lines of ls
EntryIndices(ls) == {i \in 1..Len(ls) : IsEntryLine(ls[i])}

\* the document was constructed from the text: by parse_str, which leaves
\* the path empty, or by from_file, whose read succeeded
FromText == pc = "doc" /\ (path = "" \/ read = "ok")

\* ... and has not been mutated since
Parsed == FromText /\ nops = 0

\* ---------------------------------------------------------------------- C1
\* the text ends with one newline after a character that is no whitespace
EndsClean(s) == trim_end(s) # Empty /\ s = trim_end(s) \o <<"\n">>

\* no first token of an entry line of ls ends with ':'
NoTrailingColons(ls) ==
  \A i \in EntryIndices(ls) : RawNameOf(ls[i])[Len(RawNameOf(ls[i]))] # ":"

\* no tool name is on two entry lines of ls
NoDuplicateNames(ls) ==
  \A i, j \in EntryIndices(ls) : i # j => NameOf(ls[i]) # NameOf(ls[j])

\* canonical form, as the claim defines it
Canonical(s) ==
  /\ EndsClean(s)
  /\ NoTrailingColons(lines(s))
  /\ NoDuplicateNames(lines(s))

\* no newline of s is a CR LF
NoCrLf(s) == \A i \in 1..(Len(s) - 1) : ~(s[i] = "\r" /\ s[i + 1] = "\n")

\* name, one or more versions, single spaces between them and nothing before
\* the name; a comment, if any, is " #" and at least one character
PlainEntryLine(line) ==
  /\ Len(TokensOf(line)) >= 2
  /\ DataOf(line) = join(TokensOf(line), SP) \o (IF HasHash(line) THEN SP ELSE Empty)
  /\ HasHash(line) => AfterHash(line) # Empty

\* canonical form, and every line a comment-only line or a plain entry line
\* (so no blank line either), and no CR LF
StrictCanonical(s) ==
  /\ Canonical(s)
  /\ NoCrLf(s)
  /\ \A i \in 1..Len(lines(s)) :
       IsCommentLine(lines(s)[i]) \/ PlainEntryLine(lines(s)[i])

\* C1, as claimed: dump(parse_str(text)) = text for every text in canonical
\* form (no name ending with ':', no blank line or whitespace at the end of
\* the file, no name on two lines)
C1_RoundTrip_Original ==
  (Parsed /\ call.op = "dump" /\ Canonical(text)) => out = text

\* C1, amended: dump(parse_str(text)) = text for every text in canonical form
\* whose lines are comment-only lines or plain entry lines (a name that is
\* the first character of the line, one or more versions, single spaces
\* between the tokens, then nothing or " #" and a non-empty comment), without
\* CR LF line ends
C1_RoundTrip ==
  (Parsed /\ call.op = "dump" /\ StrictCanonical(text)) => out = text

\* a text with a preamble and an entry with a comment has been parsed and
\* dumped, and the dump is the text
C1_Witness ==
  /\ Parsed /\ call.op = "dump" /\ StrictCanonical(text)
  /\ pre # Empty
  /\ plugins # <<>> /\ Len(plugins[1].value.post) > 1
  /\ out = text

\* ---------------------------------------------------------------------- C2
\* the entry lines of ls that name k
Occurrences(ls, k) == {i \in EntryIndices(ls) : NameOf(ls[i]) = k}

FirstOccurrence(ls, k) ==
  CHOOSE i \in Occurrences(ls, k) : \A j \in Occurrences(ls, k) : i <= j

LastOccurrence(ls, k) ==
  CHOOSE i \in Occurrences(ls, k) : \A j \in Occurrences(ls, k) : j <= i

\* the comment an entry line carries on the line itself
SameLineComment(line) ==
  IF HasHash(line) THEN <<" ", "#">> \o AfterHash(line) \o <<"\n">> ELSE <<"\n">>

\* the comment-only lines from line i up to the next entry line, each with
\* its newline
RECURSIVE CommentRun(_, _)
CommentRun(ls, i) ==
  IF i > Len(ls) THEN Empty
  ELSE IF IsEntryLine(ls[i]) THEN Empty
  ELSE (IF IsCommentLine(ls[i]) THEN ls[i] \o <<"\n">> ELSE Empty)
       \o CommentRun(ls, i + 1)

\* the trailing comment of the entry line i: its own comment and the
\* comment-only lines that follow it
TrailingCommentAt(ls, i) == SameLineComment(ls[i]) \o CommentRun(ls, i + 1)

\* the slots of m whose key is k
SlotsOf(m, k) == {i \in 1..Len(m) : m[i].key = k}

\* the names on the entry lines of ls
NamesOf(ls) == {NameOf(ls[i]) : i \in EntryIndices(ls)}

\* the entries are the names of the text, ordered by their first occurrence
OrderedByFirstOccurrence(m, ls) ==
  /\ \A k \in NamesOf(ls) : Cardinality(SlotsOf(m, k)) = 1
  /\ \A i \in 1..Len(m) : m[i].key \in NamesOf(ls)
  /\ \A i, j \in 1..Len(m) :
       i < j => FirstOccurrence(ls, m[i].key) < FirstOccurrence(ls, m[j].key)

\* C2, as claimed: a name on two or more entry lines of the parsed text has
\* exactly one entry, placed by its first occurrence among the other tools,
\* holding the versions and the trailing comment of its last occurrence
C2_DuplicateCollapse ==
  Parsed =>
    LET ls == lines(text)
    IN /\ OrderedByFirstOccurrence(plugins, ls)
       /\ \A k \in NamesOf(ls) :
            Cardinality(Occurrences(ls, k)) >= 2 =>
              LET e == plugins[get_index_of(plugins, k)].value
                  l == LastOccurrence(ls, k)
              IN /\ e.versions = Tail(TokensOf(ls[l]))
                 /\ e.post = TrailingCommentAt(ls, l)

\* what holds of the code for such a name: its place, the versions of its last
\* occurrence and, as the first line of its trailing comment, the comment on
\* the line of its last occurrence
C2_InPlace ==
  Parsed =>
    LET ls == lines(text)
    IN /\ OrderedByFirstOccurrence(plugins, ls)
       /\ \A k \in NamesOf(ls) :
            Cardinality(Occurrences(ls, k)) >= 2 =>
              LET e == plugins[get_index_of(plugins, k)].value
                  l == LastOccurrence(ls, k)
              IN /\ e.versions = Tail(TokensOf(ls[l]))
                 /\ IsPrefix(SameLineComment(ls[l]), e.post)

\* ---------------------------------------------------------------------- C3
\* the last entry line of ls
LastEntryIndex(ls) ==
  CHOOSE i \in EntryIndices(ls) : \A j \in EntryIndices(ls) : j <= i

\* C3, as claimed: a comment-only line after an entry line is appended, with
\* a newline, to the trailing comment of the entry of the nearest preceding
\* entry line (stated of the last line of the text; every prefix of a text
\* is a text)
C3_ContinuationComment ==
  Parsed =>
    LET ls == lines(text)
        n == Len(ls)
    IN (n >= 2 /\ IsCommentLine(ls[n]) /\ EntryIndices(ls) # {}) =>
         LET k == NameOf(ls[LastEntryIndex(ls)])
             prior == ParseLines(<<>>, SubSeq(ls, 1, n - 1))
         IN /\ contains_key(plugins, k)
            /\ plugins[get_index_of(plugins, k)].value.post
                 = prior[get_index_of(prior, k)].value.post \o ls[n] \o <<"\n">>

\* the same, where the nearest preceding entry line is the first line of its
\* name: the entry is then the last slot of the map
C3_ContinuationComment_NoRedeclaration ==
  Parsed =>
    LET ls == lines(text)
        n == Len(ls)
    IN (/\ n >= 2 /\ IsCommentLine(ls[n]) /\ EntryIndices(ls) # {}
        /\ Cardinality(Occurrences(ls, NameOf(ls[LastEntryIndex(ls)]))) = 1) =>
         LET k == NameOf(ls[LastEntryIndex(ls)])
             prior == ParseLines(<<>>, SubSeq(ls, 1, n - 1))
         IN /\ contains_key(plugins, k)
            /\ plugins[get_index_of(plugins, k)].value.post
                 = prior[get_index_of(prior, k)].value.post \o ls[n] \o <<"\n">>

\* ---------------------------------------------------------------------- C4
\* m without the slot of key k, the other slots in their order
RECURSIVE Without(_, _)
Without(m, k) ==
  IF m = <<>> THEN <<>>
  ELSE IF m[1].key = k THEN Without(Tail(m), k)
  ELSE <<m[1]>> \o Without(Tail(m), k)

\* C4, as claimed: remove_plugin(tool) deletes the entry of tool with its
\* trailing comment and leaves the order, the versions and the trailing
\* comments of the other entries, and the preamble, as they were; removing a
\* tool that is not present changes nothing
C4_RemovePlugin ==
  (pc = "doc" /\ call.op = "remove_plugin") =>
    /\ plugins = Without(before.plugins, call.plugin)
    /\ pre = before.pre

\* what holds of the code: the entry is gone and the others are kept, each
\* with its versions and trailing comment, but not in their order
C4_RemovePlugin_AsSet ==
  (pc = "doc" /\ call.op = "remove_plugin") =>
    /\ {plugins[i] : i \in 1..Len(plugins)}
         = {before.plugins[i] : i \in 1..Len(before.plugins)}
             \ {e \in {before.plugins[i] : i \in 1..Len(before.plugins)} :
                  e.key = call.plugin}
    /\ Len(plugins) = Len(Without(before.plugins, call.plugin))
    /\ pre = before.pre

\* ---------------------------------------------------------------------- C5
\* C5: add_version(tool, version) on a document without an entry of tool adds
\* an entry with versions [version] as the last one; on a document with an
\* entry of tool it appends version to its versions and the entry keeps its
\* place; all other entries and the preamble are unchanged
C5_AddVersion ==
  (pc = "doc" /\ call.op = "add_version") =>
    LET m == before.plugins
        k == call.plugin
        v == call.versions[1]
        i == get_index_of(m, k)
    IN /\ pre = before.pre
       /\ IF i = 0
          THEN /\ Len(plugins) = Len(m) + 1
               /\ \A j \in 1..Len(m) : plugins[j] = m[j]
               /\ plugins[Len(m) + 1].key = k
               /\ plugins[Len(m) + 1].value.versions = <<v>>
          ELSE /\ Len(plugins) = Len(m)
               /\ \A j \in 1..Len(m) : j # i => plugins[j] = m[j]
               /\ plugins[i].key = k
               /\ plugins[i].value.versions = Append(m[i].value.versions, v)

\* add_version has created an entry behind another one
C5_Witness_New ==
  /\ pc = "doc" /\ call.op = "add_version"
  /\ ~contains_key(before.plugins, call.plugin)
  /\ Len(plugins) >= 2

\* ---------------------------------------------------------------------- C6
\* C6: after replace_versions(tool, versions) the versions of tool are the
\* given ones, in their order (the empty list too); an entry that existed
\* keeps its trailing comment and its place; the preamble and all other
\* entries are unchanged
C6_ReplaceVersions ==
  (pc = "doc" /\ call.op = "replace_versions") =>
    LET m == before.plugins
        k == call.plugin
        i == get_index_of(m, k)
        n == get_index_of(plugins, k)
    IN /\ pre = before.pre
       /\ n # 0
       /\ plugins_of(plugins)[n] = <<k, call.versions>>
       /\ Cardinality(SlotsOf(plugins, k)) = 1
       /\ IF i = 0
          THEN /\ Len(plugins) = Len(m) + 1
               /\ \A j \in 1..Len(m) : plugins[j] = m[j]
          ELSE /\ Len(plugins) = Len(m)
               /\ n = i
               /\ plugins[i].value.post = m[i].value.post
               /\ \A j \in 1..Len(m) : j # i => plugins[j] = m[j]

\* replace_versions has replaced the versions of an entry that had a comment
\* and other versions, in front of another entry
C6_Witness ==
  /\ pc = "doc" /\ call.op = "replace_versions"
  /\ contains_key(before.plugins, call.plugin)
  /\ LET i == get_index_of(before.plugins, call.plugin)
     IN /\ i < Len(plugins)
        /\ before.plugins[i].value.versions # <<>>
        /\ before.plugins[i].value.versions # call.versions
        /\ Len(plugins[i].value.post) > 1

\* ---------------------------------------------------------------------- C7
\* C7, as claimed: an entry line gives its entry the tokens after the name
\* and before the first '#' as versions, and as trailing comment "\n" when
\* the line has no '#', else " #", all that follows the first '#', and "\n"
\* (stated of the last line of the text, whose entry no later line changes)
C7_SameLineComment ==
  Parsed =>
    LET ls == lines(text)
        n == Len(ls)
    IN (n >= 1 /\ IsEntryLine(ls[n])) =>
         LET k == NameOf(ls[n])
         IN /\ contains_key(plugins, k)
            /\ plugins[get_index_of(plugins, k)].value.versions = Tail(TokensOf(ls[n]))
            /\ plugins[get_index_of(plugins, k)].value.post = SameLineComment(ls[n])

\* what holds of the code: the same, for the lines that have no '#' or have
\* at least one character after their first '#'
C7_SameLineComment_NonEmpty ==
  Parsed =>
    LET ls == lines(text)
        n == Len(ls)
    IN (n >= 1 /\ IsEntryLine(ls[n])
        /\ (HasHash(ls[n]) => AfterHash(ls[n]) # Empty)) =>
         LET k == NameOf(ls[n])
         IN /\ contains_key(plugins, k)
            /\ plugins[get_index_of(plugins, k)].value.versions = Tail(TokensOf(ls[n]))
            /\ plugins[get_index_of(plugins, k)].value.post = SameLineComment(ls[n])

\* ---------------------------------------------------------------------- C8
\* the number of leading comment-only lines of ls
LeadingComments(ls) ==
  CHOOSE k \in 0..Len(ls) :
    /\ \A i \in 1..k : IsCommentLine(ls[i])
    /\ k < Len(ls) => ~IsCommentLine(ls[k + 1])

\* the lines of ls, each with a newline
RECURSIVE Unlines(_)
Unlines(ls) ==
  IF ls = <<>> THEN Empty ELSE ls[1] \o <<"\n">> \o Unlines(Tail(ls))

\* the preamble is the leading run of comment-only lines of the text (the
\* lines as str::lines gives them, each followed by "\n"), holds only comment
\* lines, and the last call, if a mutator, has not changed it
PreambleKept ==
  /\ pre = Unlines(SubSeq(lines(text), 1, LeadingComments(lines(text))))
  /\ \A i \in 1..Len(lines(pre)) : IsCommentLine(lines(pre)[i])
  /\ call.op \in {"add_version", "replace_versions", "remove_plugin"} => pre = before.pre

\* C8, as claimed: ... and the preamble is a prefix of the output of dump()
C8_Preamble_Original ==
  FromText => /\ PreambleKept
              /\ call.op = "dump" => IsPrefix(pre, out)

\* C8, amended: ... and the preamble without its trailing whitespace is a
\* prefix of the output of dump(); the whole preamble is a prefix of it when
\* the last line of the preamble does not end with whitespace or the entries
\* render a character that is no whitespace
C8_Preamble ==
  FromText =>
    /\ PreambleKept
    /\ call.op = "dump" =>
         /\ IsPrefix(trim_end(pre), out)
         /\ (pre = trim_end(pre) \o <<"\n">> \/ trim_end(DumpPlugins(plugins)) # Empty)
              => IsPrefix(pre, out)

\* a document with a preamble has been mutated and dumped with its entries
C8_Witness ==
  /\ FromText /\ call.op = "dump" /\ nops >= 1
  /\ pre # Empty /\ plugins # <<>>
  /\ IsPrefix(pre, out)

\* ---------------------------------------------------------------------- C9
\* length of the leading run of s that is neither whitespace nor '#'
RECURSIVE NameLen(_)
NameLen(s) ==
  IF s = Empty THEN 0
  ELSE IF IsWhitespace(s[1]) \/ s[1] = "#" THEN 0
  ELSE 1 + NameLen(Tail(s))

\* the line, its name written without the ':' at its end (a name of nothing
\* but ':' is left as it is: without them the line has another first token)
WithoutNameColons(line) ==
  IF IsCommentLine(line) THEN line
  ELSE LET t == trim_start(line)
           name == SubSeq(t, 1, NameLen(t))
       IN IF DropColons(name) = Empty THEN line
          ELSE SubSeq(line, 1, Len(line) - Len(t)) \o DropColons(name)
               \o Tail_(t, NameLen(t) + 1)

\* the text, every name written without the ':' at its end
TextWithoutNameColons(s) ==
  Unlines([i \in 1..Len(lines(s)) |-> WithoutNameColons(lines(s)[i])])

\* C9: no tool name of a parsed document ends with ':'; the text parses to
\* the entries of the same text with the names written without their
\* trailing ':'; the entry lines that dump prints have names without ':' at
\* the end
C9_TrailingColon ==
  Parsed =>
    /\ \A i \in 1..Len(plugins) : DropColons(plugins[i].key) = plugins[i].key
    /\ Ok(plugins) = parse_plugins(TextWithoutNameColons(text))
    /\ (call.op = "dump" /\ ~contains_key(plugins, Empty)) =>
         \A i \in EntryIndices(lines(out)) :
           DropColons(RawNameOf(lines(out)[i])) = RawNameOf(lines(out)[i])

\* `a: 1` has been parsed and dumped as `a 1`
C9_Witness ==
  /\ Parsed /\ call.op = "dump"
  /\ text = A \o <<":">> \o SP \o V1 \o <<"\n">>
  /\ plugins = <<[key |-> A, value |-> [versions |-> <<V1>>, post |-> <<"\n">>]]>>
  /\ out = A \o SP \o V1 \o <<"\n">>

\* --------------------------------------------------------------------- C10
\* C10: parse_str returns a document for every text; from_file returns an
\* error exactly when the file cannot be read, and then nothing has been
\* parsed; the entries are those of the names on the entry lines, so a blank
\* line gives none; a line of a name alone gives an entry without versions
C10_ParseTotal ==
  /\ call.op = "parse_str" => (result = "Ok" /\ pc = "doc")
  /\ call.op = "from_file" => (result = "Err" <=> read = "failed")
  /\ result = "Err" =>
       (call.op = "from_file" /\ pc = "failed" /\ pre = Empty /\ plugins = <<>>)
  /\ Parsed =>
       LET ls == lines(text)
       IN /\ {plugins[i].key : i \in 1..Len(plugins)} = NamesOf(ls)
          /\ Len(plugins) = Cardinality(NamesOf(ls))
          /\ (ls # <<>> /\ IsEntryLine(ls[Len(ls)]) /\ Len(TokensOf(ls[Len(ls)])) = 1) =>
               plugins[get_index_of(plugins, NameOf(ls[Len(ls)]))].value.versions = <<>>

\* a blank line and a line of a name alone have been parsed: one entry,
\* without versions
C10_Witness ==
  /\ Parsed /\ call.op = "parse_str" /\ result = "Ok"
  /\ Len(lines(text)) = 2 /\ lines(text)[1] = Empty
  /\ Len(plugins) = 1 /\ plugins[1].value.versions = <<>>

\* --------------------------------------------------------------------- C13
\* C13: env() returns the empty map in every state of a document, whatever
\* text was parsed and whatever mutators were applied; it changes nothing
C13_EnvEmpty ==
  call.op = "env" =>
    /\ envret.some
    /\ envret.map = {}
    /\ Doc = before

\* env() has been called on a document with entries, after a mutator
C13_Witness ==
  /\ pc = "doc" /\ call.op = "env" /\ envret.some
  /\ nops >= 1
  /\ Len(plugins) >= 2
  /\ \E i \in 1..Len(plugins) : plugins[i].value.versions # <<>>

\* --------------------------------------------------------------------- C14
\* a trailing comment of the shape "\n", or " #" + text + "\n", followed by
\* any number of comment-only lines that end with "\n" each
PostShape(post) ==
  /\ post # Empty
  /\ post[Len(post)] = "\n"
  /\ LET ls == lines(post)
     IN /\ ls # <<>>
        /\ ls[1] = Empty \/ (Len(ls[1]) >= 2 /\ ls[1][1] = " " /\ ls[1][2] = "#")
        /\ \A k \in 2..Len(ls) : IsCommentLine(ls[k])

\* C14: in every state of a document (made by init or parse_str, then
\* mutated) the trailing comment of every entry has the shape above; it ends
\* with a newline
C14_PostShape ==
  pc = "doc" => \A i \in 1..Len(plugins) : PostShape(plugins[i].value.post)

\* the entries of a document as parse_str made it have the shape: the
\* entries without it are those get_or_create_plugin made
C14_PostShape_Parsed ==
  Parsed => \A i \in 1..Len(plugins) : PostShape(plugins[i].value.post)

\* --------------------------------------------------------------------- C15
\* a non-empty token without whitespace, '#' or a trailing ':'
WellFormedToken(t) ==
  /\ t # Empty
  /\ \A k \in 1..Len(t) : ~IsWhitespace(t[k]) /\ t[k] # "#"
  /\ t[Len(t)] # ":"

\* C15: for every document reached from init or parse_str by mutators with
\* well-formed names and versions, the plugins() of the parsed dump() are the
\* plugins() of the document
C15_PluginsSurviveDump ==
  (/\ pc = "doc"
   /\ \A n \in PluginNames : WellFormedToken(n)
   /\ \A v \in Versions : WellFormedToken(v))
  => LET r == parse_str(dump(pre, plugins))
     IN r.ok /\ plugins_of(r.val.plugins) = plugins_of(plugins)

\* ... which holds of the documents whose trailing comments all end a line
C15_PluginsSurviveDump_PostShape ==
  (pc = "doc" /\ \A i \in 1..Len(plugins) : PostShape(plugins[i].value.post))
  => LET r == parse_str(dump(pre, plugins))
     IN r.ok /\ plugins_of(r.val.plugins) = plugins_of(plugins)

\* --------------------------------------------------------------------- C16
\* dump of the document parse_str makes of t
Normalized(t) ==
  LET r == parse_str(t)
  IN dump(r.val.pre, r.val.plugins)

\* C16: for every text t, dump(parse_str(t)) is a fixed point of parsing and
\* dumping: dump(parse_str(dump(parse_str(t)))) = dump(parse_str(t))
C16_Idempotent ==
  (Parsed /\ call.op = "dump") =>
    /\ out = Normalized(text)
    /\ parse_str(out).ok
    /\ Normalized(out) = out

\* ... which holds of the texts that give no entry with the empty name and
\* no entry whose same-line comment is whitespace only
C16_Idempotent_Named ==
  (/\ Parsed /\ call.op = "dump"
   /\ ~contains_key(plugins, Empty)
   /\ \A i \in 1..Len(plugins) :
        LET ls == lines(plugins[i].value.post)
        IN ls[1] = Empty \/ trim_end(Tail_(ls[1], 3)) # Empty)
  => Normalized(out) = out

\* --------------------------------------------------------------------- C11
\* the save() of w is the only one that has been called
OnlySaver(w) == \A v \in DOMAIN saves : v # w => saves[v].pc = "idle"

\* C11: when save() returns an error, the file at the path is what it was
\* before the call, and the document is unchanged
C11_FailedSaveKeepsFile ==
  \A w \in DOMAIN saves :
    (saves[w].pc = "failed" /\ OnlySaver(w)) =>
      /\ disk = saves[w].was.disk
      /\ saves[w].doc = saves[w].was.doc

\* ... which holds of the save() that fails to open the file
C11_FailedOpenKeepsFile ==
  \A w \in DOMAIN saves :
    (saves[w].pc = "failed" /\ ~saves[w].opened /\ OnlySaver(w)) =>
      /\ disk = saves[w].was.disk
      /\ saves[w].doc = saves[w].was.doc

\* ... while after a failure later on the file holds a part of dump(), which
\* may be none of it
C11_FailedWriteLeavesPrefix ==
  \A w \in DOMAIN saves :
    (saves[w].pc = "failed" /\ saves[w].opened /\ OnlySaver(w)) =>
      /\ disk = File(SubSeq(saves[w].buf, 1, saves[w].off))
      /\ saves[w].off < Len(saves[w].buf)

\* --------------------------------------------------------------------- C12
\* every save() called has returned Ok, and there are several
AllSaved ==
  /\ Cardinality(DOMAIN saves) >= 2
  /\ \A w \in DOMAIN saves : saves[w].pc = "done"

\* C12: when several documents bound to one path are saved, however the
\* saves interleave, the file is in the end the dump() of the document whose
\* save() returned last
C12_LastWriterWins ==
  AllSaved => disk = File(saves[order[Len(order)]].buf)

\* ... which holds of the saves of which none starts before another has
\* returned
C12_LastWriterWins_Serial ==
  (AllSaved /\ \A w \in DOMAIN saves : ~saves[w].overlap)
  => disk = File(saves[order[Len(order)]].buf)

====
